---- MODULE Spec2Model ----
(***************************************************************************)
(* Model of the simple writer API of libE57Format (E57SimpleWriter.cpp):   *)
(* the bounds-derivation pass _fillMinMaxData and the Writer facade that   *)
(* forwards to the container implementation (WriterImpl).                  *)
(*                                                                         *)
(* Floating point values are modelled by integers: the code only compares  *)
(* and copies them, so an order-preserving image is exact.  float values   *)
(* are a sub-range of the double values, as float -> double is exact.      *)
(***************************************************************************)
EXTENDS Integers, Sequences, FiniteSets, Bags, TLC

VARIABLES
    coordType,   \* COORDTYPE of the buffers the caller holds: "float" or "double"
    hdr,         \* the caller's Data3D header object (mutated in place)
    bufs,        \* the caller's Data3DPointsData_t<COORDTYPE> buffers
    fillCalls,   \* number of _fillMinMaxData calls made on hdr
    hdrEntry,    \* hdr as it was on entry to the most recent _fillMinMaxData call
    secondBufs,  \* buffers of the second call on hdr: "none", "same" or "other"
    data3D,      \* the container's 3D records, in creation order (index 0 first)
    writers,     \* the CompressedVectorWriter handles the caller holds (a bag)
    images2D,    \* the container's image records, in creation order
    uploads,     \* per image, the caller's progress through a chunked upload
    last,        \* the most recent Writer or handle call and its outcome
    trace        \* the calls that call made on the container, in order

vars == <<coordType, hdr, bufs, fillCalls, hdrEntry, secondBufs,
          data3D, writers, images2D, uploads, last, trace>>

-----------------------------------------------------------------------------
(* Numeric limits *)

\* std::numeric_limits<double>::lowest() and ::max()
DoubleLowest == -3
DoubleMax == 3
\* std::numeric_limits<float>::lowest() and ::max(), as doubles
FloatLowest == -2
FloatMax == 2

CoordTypes == {"float", "double"}

\* constexpr COORDTYPE cMin = std::numeric_limits<COORDTYPE>::lowest();
cMin(c) == IF c = "float" THEN FloatLowest ELSE DoubleLowest
\* constexpr COORDTYPE cMax = std::numeric_limits<COORDTYPE>::max();
cMax(c) == IF c = "float" THEN FloatMax ELSE DoubleMax

\* std::min( a, b ): b if b < a, else a
StdMin(a, b) == IF b < a THEN b ELSE a
\* std::max( a, b ): b if a < b, else a
StdMax(a, b) == IF a < b THEN b ELSE a

\* e57::IntensityLimits{}: the default-constructed limits
DefaultIntensityLimits == [intensityMinimum |-> 0, intensityMaximum |-> 0]

-----------------------------------------------------------------------------
(* _fillMinMaxData *)

\* writePointRange without the test of pointRangeMaximum
WritePointRange_MinimumOnly(h, c) ==
    /\ h.pointFields.pointRangeNodeType = "ScaledInteger"
    /\ h.pointFields.pointRangeMinimum = cMin(c)

\* const bool writePointRange
WritePointRange(h, c) ==
    /\ h.pointFields.pointRangeNodeType = "ScaledInteger"
    /\ h.pointFields.pointRangeMinimum = cMin(c)
    /\ h.pointFields.pointRangeMaximum = cMax(c)

\* const bool writeAngle
WriteAngle(h, c) ==
    /\ h.pointFields.angleNodeType = "ScaledInteger"
    /\ h.pointFields.angleMinimum = cMin(c)
    /\ h.pointFields.angleMaximum = cMax(c)

\* const bool writeIntensity
WriteIntensity(h, c) ==
    /\ h.pointFields.intensityField
    /\ h.intensityLimits = DefaultIntensityLimits

\* const bool writeTimeStamp
WriteTimeStamp(h, c) ==
    /\ h.pointFields.timeStampField
    /\ h.pointFields.timeNodeType = "ScaledInteger"
    /\ h.pointFields.timeMinimum = cMin(c)
    /\ h.pointFields.timeMaximum = cMax(c)

\* The running minima and maxima as initialised before the loop
InitialAccumulators(c) ==
    [ pointRangeMinimum |-> cMax(c),     pointRangeMaximum |-> cMin(c),
      angleMinimum      |-> cMax(c),     angleMaximum      |-> cMin(c),
      intensityMinimum  |-> DoubleMax,   intensityMaximum  |-> DoubleLowest,
      timeMinimum       |-> DoubleMax,   timeMaximum       |-> DoubleLowest ]

\* The Cartesian block without the cartesianZ line of the maximum
ScanCartesian_NoZMaximum(h, c, b, i, acc) ==
    IF WritePointRange(h, c) /\ h.pointFields.cartesianXField
    THEN [acc EXCEPT
            !.pointRangeMinimum =
                StdMin(b.cartesianZ[i], StdMin(b.cartesianY[i], StdMin(b.cartesianX[i], @))),
            !.pointRangeMaximum = StdMax(b.cartesianY[i], StdMax(b.cartesianX[i], @))]
    ELSE acc

\* if ( writePointRange && pointFields.cartesianXField ) { ... }
ScanCartesian(h, c, b, i, acc) ==
    IF WritePointRange(h, c) /\ h.pointFields.cartesianXField
    THEN [acc EXCEPT
            !.pointRangeMinimum =
                StdMin(b.cartesianZ[i], StdMin(b.cartesianY[i], StdMin(b.cartesianX[i], @))),
            !.pointRangeMaximum =
                StdMax(b.cartesianZ[i], StdMax(b.cartesianY[i], StdMax(b.cartesianX[i], @)))]
    ELSE acc

\* if ( writePointRange && pointFields.sphericalRangeField ) { ... }
ScanSphericalRange(h, c, b, i, acc) ==
    IF WritePointRange(h, c) /\ h.pointFields.sphericalRangeField
    THEN [acc EXCEPT
            !.pointRangeMinimum = StdMin(b.sphericalRange[i], @),
            !.pointRangeMaximum = StdMax(b.sphericalRange[i], @)]
    ELSE acc

\* if ( writeAngle ) { ... }
ScanAngle(h, c, b, i, acc) ==
    IF WriteAngle(h, c)
    THEN [acc EXCEPT
            !.angleMinimum =
                StdMin(b.sphericalElevation[i], StdMin(b.sphericalAzimuth[i], @)),
            !.angleMaximum =
                StdMax(b.sphericalElevation[i], StdMax(b.sphericalAzimuth[i], @))]
    ELSE acc

\* if ( writeIntensity ) { ... }
ScanIntensity(h, c, b, i, acc) ==
    IF WriteIntensity(h, c)
    THEN [acc EXCEPT
            !.intensityMinimum = StdMin(b.intensity[i], @),
            !.intensityMaximum = StdMax(b.intensity[i], @)]
    ELSE acc

\* if ( writeTimeStamp ) { ... }
ScanTimeStamp(h, c, b, i, acc) ==
    IF WriteTimeStamp(h, c)
    THEN [acc EXCEPT
            !.timeMinimum = StdMin(b.timeStamp[i], @),
            !.timeMaximum = StdMax(b.timeStamp[i], @)]
    ELSE acc

\* One iteration of the loop body, for the point at (1-based) index i
ScanPoint(h, c, b, i, acc) ==
    ScanTimeStamp(h, c, b, i,
        ScanIntensity(h, c, b, i,
            ScanAngle(h, c, b, i,
                ScanSphericalRange(h, c, b, i,
                    ScanCartesian(h, c, b, i, acc)))))

\* for ( int64_t i = 0; i < ioData3DHeader.pointCount; ++i )
RECURSIVE ScanPoints(_, _, _, _, _)
ScanPoints(h, c, b, i, acc) ==
    IF i > h.pointCount
    THEN acc
    ELSE ScanPoints(h, c, b, i + 1, ScanPoint(h, c, b, i, acc))

\* if ( writePointRange ) { pointFields.pointRangeMinimum = ...; ...Maximum = ...; }
StorePointRange(h, c, acc) ==
    IF WritePointRange(h, c)
    THEN [ pointRangeMinimum |-> acc.pointRangeMinimum,
           pointRangeMaximum |-> acc.pointRangeMaximum ]
    ELSE [ pointRangeMinimum |-> h.pointFields.pointRangeMinimum,
           pointRangeMaximum |-> h.pointFields.pointRangeMaximum ]

\* if ( writeAngle ) { pointFields.angleMinimum = ...; pointFields.angleMaximum = ...; }
StoreAngle(h, c, acc) ==
    IF WriteAngle(h, c)
    THEN [ angleMinimum |-> acc.angleMinimum, angleMaximum |-> acc.angleMaximum ]
    ELSE [ angleMinimum |-> h.pointFields.angleMinimum,
           angleMaximum |-> h.pointFields.angleMaximum ]

\* if ( writeIntensity ) { intensityLimits.intensityMinimum = ...; ...Maximum = ...; }
StoreIntensity(h, c, acc) ==
    IF WriteIntensity(h, c)
    THEN [ intensityMinimum |-> acc.intensityMinimum,
           intensityMaximum |-> acc.intensityMaximum ]
    ELSE h.intensityLimits

\* if ( writeTimeStamp ) { pointFields.timeMinimum = ...; pointFields.timeMaximum = ...; }
StoreTimeStamp(h, c, acc) ==
    IF WriteTimeStamp(h, c)
    THEN [ timeMinimum |-> acc.timeMinimum, timeMaximum |-> acc.timeMaximum ]
    ELSE [ timeMinimum |-> h.pointFields.timeMinimum,
           timeMaximum |-> h.pointFields.timeMaximum ]

\* template <typename COORDTYPE> void _fillMinMaxData( ioData3DHeader, inBuffers ):
\* the header as the call leaves it
FillMinMaxData(h, c, b) ==
    LET acc == ScanPoints(h, c, b, 1, InitialAccumulators(c))
        pr  == StorePointRange(h, c, acc)
        an  == StoreAngle(h, c, acc)
        tm  == StoreTimeStamp(h, c, acc)
    IN  [h EXCEPT
            !.pointFields.pointRangeMinimum = pr.pointRangeMinimum,
            !.pointFields.pointRangeMaximum = pr.pointRangeMaximum,
            !.pointFields.angleMinimum = an.angleMinimum,
            !.pointFields.angleMaximum = an.angleMaximum,
            !.intensityLimits = StoreIntensity(h, c, acc),
            !.pointFields.timeMinimum = tm.timeMinimum,
            !.pointFields.timeMaximum = tm.timeMaximum]

-----------------------------------------------------------------------------
(* The container behind the facade: WriterImpl and CompressedVectorWriter.  *)
(* Their code is not part of E57SimpleWriter.cpp; they are modelled from    *)
(* the specification's sections 4.2 - 4.4, 6 and 7.                         *)

\* A call made on the container or on a handle, as recorded in trace
Call(name, h, index, count, ok, value) ==
    [call |-> name, header |-> h, index |-> index, count |-> count,
     ok |-> ok, value |-> value]

\* The value of a call that threw
NoValue == -1

\* createRecord: fails on a structurally invalid header (non-positive point count)
HeaderValid(h) == h.pointCount > 0

\* WriterImpl::NewData3D( header ): the new record's index, or an error
WriterImpl_NewData3D(d3, h) ==
    IF HeaderValid(h)
    THEN [ok |-> TRUE, value |-> Len(d3),
          data3D |-> Append(d3, [groupIndexes |-> 0, openWriters |-> 0])]
    ELSE [ok |-> FALSE, value |-> NoValue, data3D |-> d3]

\* SetUpData3DPointsData that does not look for a writer still open on the record
WriterImpl_SetUpData3DPointsData_NoOpenCheck(d3, dataIndex, pointCount) ==
    IF dataIndex \in 0..(Len(d3) - 1)
    THEN [ok |-> TRUE,
          writer |-> [dataIndex |-> dataIndex, pointCount |-> pointCount,
                      recordCount |-> 0, isOpen |-> TRUE],
          data3D |-> [d3 EXCEPT ![dataIndex + 1].openWriters = @ + 1]]
    ELSE [ok |-> FALSE,
          writer |-> [dataIndex |-> dataIndex, pointCount |-> pointCount,
                      recordCount |-> 0, isOpen |-> FALSE],
          data3D |-> d3]

\* WriterImpl::SetUpData3DPointsData( dataIndex, pointCount, buffers ): an open
\* handle on an existing record that has no open streaming writer, or an error
WriterImpl_SetUpData3DPointsData(d3, dataIndex, pointCount) ==
    IF /\ dataIndex \in 0..(Len(d3) - 1)
       /\ d3[dataIndex + 1].openWriters = 0
    THEN [ok |-> TRUE,
          writer |-> [dataIndex |-> dataIndex, pointCount |-> pointCount,
                      recordCount |-> 0, isOpen |-> TRUE],
          data3D |-> [d3 EXCEPT ![dataIndex + 1].openWriters = @ + 1]]
    ELSE [ok |-> FALSE,
          writer |-> [dataIndex |-> dataIndex, pointCount |-> pointCount,
                      recordCount |-> 0, isOpen |-> FALSE],
          data3D |-> d3]

\* CompressedVectorWriter::write( n ): invalid after close and beyond the declared count
CompressedVectorWriter_write(w, n) ==
    IF w.isOpen /\ w.recordCount + n <= w.pointCount
    THEN [ok |-> TRUE, writer |-> [w EXCEPT !.recordCount = @ + n]]
    ELSE [ok |-> FALSE, writer |-> w]

\* CompressedVectorWriter::close(): invalid on a closed handle
CompressedVectorWriter_close(d3, w) ==
    IF w.isOpen
    THEN [ok |-> TRUE, writer |-> [w EXCEPT !.isOpen = FALSE],
          data3D |-> [d3 EXCEPT ![w.dataIndex + 1].openWriters = @ - 1]]
    ELSE [ok |-> FALSE, writer |-> w, data3D |-> d3]

\* WriterImpl::WriteData3DGroupsData( dataIndex, ... ): true once per existing record,
\* false (a result, not an error) otherwise
WriterImpl_WriteData3DGroupsData(d3, dataIndex) ==
    IF /\ dataIndex \in 0..(Len(d3) - 1)
       /\ d3[dataIndex + 1].groupIndexes = 0
    THEN [ok |-> TRUE, value |-> TRUE,
          data3D |-> [d3 EXCEPT ![dataIndex + 1].groupIndexes = @ + 1]]
    ELSE [ok |-> TRUE, value |-> FALSE, data3D |-> d3]

-----------------------------------------------------------------------------
(* Writer: the facade of E57SimpleWriter.cpp, 3D scans *)

\* int64_t Writer::NewData3D( Data3D &data3DHeader )
Writer_NewData3D(d3, h) == WriterImpl_NewData3D(d3, h)

\* SetUpData3DPointsData with its two integer arguments forwarded in the other order
Writer_SetUpData3DPointsData_SwappedArguments(d3, dataIndex, pointCount) ==
    WriterImpl_SetUpData3DPointsData(d3, pointCount, dataIndex)

\* CompressedVectorWriter Writer::SetUpData3DPointsData( dataIndex, pointCount, buffers )
Writer_SetUpData3DPointsData(d3, dataIndex, pointCount) ==
    WriterImpl_SetUpData3DPointsData(d3, dataIndex, pointCount)

\* WriteData3DGroupsData that drops the container's result and reports success
Writer_WriteData3DGroupsData_AlwaysTrue(d3, dataIndex) ==
    [WriterImpl_WriteData3DGroupsData(d3, dataIndex) EXCEPT !.value = TRUE]

\* bool Writer::WriteData3DGroupsData( dataIndex, groupCount, ... )
Writer_WriteData3DGroupsData(d3, dataIndex) ==
    WriterImpl_WriteData3DGroupsData(d3, dataIndex)

\* What WriteData3DData leaves: whether it returned (ok) and what, the header and
\* the container as they are then, and the calls it made
Outcome(ok, value, h, d3, t) ==
    [ok |-> ok, value |-> value, hdr |-> h, data3D |-> d3, trace |-> t]

\* dataWriter.close(); return scanIndex;
WriteData3DData_close(filled, scanIndex, d3, w, t) ==
    LET r == CompressedVectorWriter_close(d3, w)
    IN  Outcome(r.ok, IF r.ok THEN scanIndex ELSE NoValue, filled, r.data3D,
                Append(t, Call("close", filled, w.dataIndex, 0, r.ok, 0)))

\* dataWriter.write( data3DHeader.pointCount );
WriteData3DData_write(filled, scanIndex, d3, w, t) ==
    LET r == CompressedVectorWriter_write(w, filled.pointCount)
        t4 == Append(t, Call("write", filled, w.dataIndex, filled.pointCount, r.ok, 0))
    IN  IF r.ok
        THEN WriteData3DData_close(filled, scanIndex, d3, r.writer, t4)
        ELSE Outcome(FALSE, NoValue, filled, d3, t4)

\* e57::CompressedVectorWriter dataWriter =
\*    impl_->SetUpData3DPointsData( scanIndex, data3DHeader.pointCount, buffers );
WriteData3DData_SetUp(filled, scanIndex, d3, t) ==
    LET r == WriterImpl_SetUpData3DPointsData(d3, scanIndex, filled.pointCount)
        t3 == Append(t, Call("SetUpData3DPointsData", filled, scanIndex,
                             filled.pointCount, r.ok, 0))
    IN  IF r.ok
        THEN WriteData3DData_write(filled, scanIndex, r.data3D, r.writer, t3)
        ELSE Outcome(FALSE, NoValue, filled, r.data3D, t3)

\* NewData3D whose failure is caught: the record is created from a repaired header
\* and the function goes on
WriteData3DData_NewData3D_Retried(filled, d3, t) ==
    LET r == WriterImpl_NewData3D(d3, filled)
        t2 == Append(t, Call("NewData3D", filled, 0, 0, r.ok, r.value))
        repaired == [filled EXCEPT !.pointCount = 1]
        again == WriterImpl_NewData3D(d3, repaired)
    IN  IF r.ok
        THEN WriteData3DData_SetUp(filled, r.value, r.data3D, t2)
        ELSE WriteData3DData_SetUp(repaired, again.value, again.data3D,
                 Append(t2, Call("NewData3D", repaired, 0, 0, again.ok, again.value)))

\* const int64_t scanIndex = impl_->NewData3D( data3DHeader );
\* an exception leaves the function here
WriteData3DData_NewData3D(filled, d3, t) ==
    LET r == WriterImpl_NewData3D(d3, filled)
        t2 == Append(t, Call("NewData3D", filled, 0, 0, r.ok, r.value))
    IN  IF r.ok
        THEN WriteData3DData_SetUp(filled, r.value, r.data3D, t2)
        ELSE Outcome(FALSE, NoValue, filled, r.data3D, t2)

\* WriteData3DData that creates the record before it fills the header
Writer_WriteData3DData_RecordBeforeFill(d3, h, c, b) ==
    LET r == WriterImpl_NewData3D(d3, h)
        t1 == <<Call("NewData3D", h, 0, 0, r.ok, r.value)>>
    IN  IF r.ok
        THEN WriteData3DData_SetUp(FillMinMaxData(h, c, b), r.value, r.data3D,
                 Append(t1, Call("_fillMinMaxData", FillMinMaxData(h, c, b), 0, 0, TRUE, 0)))
        ELSE Outcome(FALSE, NoValue, h, r.data3D, t1)

\* int64_t Writer::WriteData3DData( Data3D &data3DHeader, const Data3DPoints... &buffers ):
\* _fillMinMaxData( data3DHeader, buffers ); and then the calls on the container
Writer_WriteData3DData(d3, h, c, b) ==
    WriteData3DData_NewData3D(FillMinMaxData(h, c, b), d3,
        <<Call("_fillMinMaxData", FillMinMaxData(h, c, b), 0, 0, TRUE, 0)>>)

-----------------------------------------------------------------------------
(* Images: the container's side, modelled from the specification (4.3, 6) *)

\* WriterImpl::NewImage2D( header ): the new image record's index
WriterImpl_NewImage2D(imgs, byteCount) ==
    [ok |-> TRUE, value |-> Len(imgs), images2D |-> Append(imgs, [byteCount |-> byteCount])]

\* WriterImpl::WriteImage2DData( imageIndex, ..., buffer, start, count ): the number
\* of bytes of [start, start + count) the image accepts, an error without the record
WriterImpl_WriteImage2DData(imgs, imageIndex, start, count) ==
    IF imageIndex \in 0..(Len(imgs) - 1)
    THEN LET size == imgs[imageIndex + 1].byteCount
         IN  [ok |-> TRUE,
              value |-> IF start < 0 \/ start >= size THEN 0
                        ELSE IF count <= size - start THEN count ELSE size - start]
    ELSE [ok |-> FALSE, value |-> 0]

-----------------------------------------------------------------------------
(* Writer: the facade of E57SimpleWriter.cpp, images *)

\* A call made on the container for an image, as recorded in trace
ImageCall(name, index, start, count, ok, value) ==
    [call |-> name, index |-> index, start |-> start, count |-> count,
     ok |-> ok, value |-> value]

\* The number of values of size_t (a scaled-down 2^64)
SizeTModulus == 16

\* static_cast<size_t>( int64_t )
ToSizeT(n) == n % SizeTModulus

\* static_cast<int64_t>( size_t )
ToInt64(n) == IF n >= SizeTModulus \div 2 THEN n - SizeTModulus ELSE n

\* int64_t Writer::NewImage2D( Image2D &image2DHeader )
Writer_NewImage2D(imgs, byteCount) == WriterImpl_NewImage2D(imgs, byteCount)

\* The index form with start and count forwarded in each other's place
Writer_WriteImage2DDataAt_SwappedArguments(imgs, imageIndex, start, count) ==
    LET size == ToSizeT(count)
        r == WriterImpl_WriteImage2DData(imgs, imageIndex, size, start)
    IN  [ok |-> r.ok, value |-> IF r.ok THEN ToInt64(r.value) ELSE NoValue,
         images2D |-> imgs,
         trace |-> <<ImageCall("WriteImage2DData", imageIndex, size, start, r.ok, r.value)>>]

\* int64_t Writer::WriteImage2DData( int64_t imageIndex, imageType, imageProjection,
\*                                   void *pBuffer, int64_t start, int64_t count )
Writer_WriteImage2DDataAt(imgs, imageIndex, start, count) ==
    LET size == ToSizeT(count)
        r == WriterImpl_WriteImage2DData(imgs, imageIndex, start, size)
    IN  [ok |-> r.ok, value |-> IF r.ok THEN ToInt64(r.value) ELSE NoValue,
         images2D |-> imgs,
         trace |-> <<ImageCall("WriteImage2DData", imageIndex, start, size, r.ok, r.value)>>]

\* int64_t Writer::WriteImage2DData( Image2D &image2DHeader, imageType, imageProjection,
\*                                   int64_t startPos, void *pBuffer, int64_t byteCount )
Writer_WriteImage2DDataNew(imgs, byteCountOfImage, startPos, byteCount) ==
    LET sizeInBytes == ToSizeT(byteCount)
        r1 == WriterImpl_NewImage2D(imgs, byteCountOfImage)
        imageIndex == r1.value
        r2 == WriterImpl_WriteImage2DData(r1.images2D, imageIndex, startPos, sizeInBytes)
    IN  [ok |-> r2.ok, value |-> IF r2.ok THEN ToInt64(r2.value) ELSE NoValue,
         images2D |-> r1.images2D,
         trace |-> <<ImageCall("NewImage2D", 0, 0, byteCountOfImage, r1.ok, r1.value),
                     ImageCall("WriteImage2DData", imageIndex, startPos, sizeInBytes,
                               r2.ok, r2.value)>>]

-----------------------------------------------------------------------------
(* Inputs: headers and buffers a caller can pass *)

MaxPoints == 2

NodeTypes == {"ScaledInteger", "Float"}
Families == {"pointRange", "angle", "intensity", "time"}

\* Finite samples of COORDTYPE and of double
CoordVals(c) == {cMin(c), 0, cMax(c)}
CartesianVals(c) == {cMin(c), cMax(c)}
DoubleVals == {DoubleLowest, 0, DoubleMax}

\* Bounds a caller can leave in the header: the sentinel pair, one side set, both set
Sentinel(c) == <<cMin(c), cMax(c)>>
BoundChoices(c) == {Sentinel(c), <<cMin(c), 1>>, <<-1, cMax(c)>>, <<-1, 1>>}
LimitChoices == {<<0, 0>>, <<0, 1>>, <<-1, 0>>}

\* Per-family header settings: every combination for the family under study;
\* the other families are all left out (on = FALSE) or all asked for (on = TRUE)
PointRangeSettings(c, all, on) ==
    IF all
    THEN [nodeType : NodeTypes, bounds : BoundChoices(c),
          cartesianXField : BOOLEAN, sphericalRangeField : BOOLEAN]
    ELSE {[nodeType |-> IF on THEN "ScaledInteger" ELSE "Float", bounds |-> Sentinel(c),
           cartesianXField |-> TRUE, sphericalRangeField |-> on]}

AngleSettings(c, all, on) ==
    IF all
    THEN [nodeType : NodeTypes, bounds : BoundChoices(c)]
    ELSE {[nodeType |-> IF on THEN "ScaledInteger" ELSE "Float", bounds |-> Sentinel(c)]}

IntensitySettings(all, on) ==
    IF all
    THEN [intensityField : BOOLEAN, limits : LimitChoices]
    ELSE {[intensityField |-> on, limits |-> <<0, 0>>]}

TimeSettings(c, all, on) ==
    IF all
    THEN [timeStampField : BOOLEAN, nodeType : NodeTypes, bounds : BoundChoices(c)]
    ELSE {[timeStampField |-> on, nodeType |-> "ScaledInteger", bounds |-> Sentinel(c)]}

\* e57::Data3D, the fields _fillMinMaxData reads or writes
MakeHeader(pr, an, it, tm, n) ==
    [ pointCount |-> n,
      pointFields |->
        [ cartesianXField     |-> pr.cartesianXField,
          sphericalRangeField |-> pr.sphericalRangeField,
          pointRangeNodeType  |-> pr.nodeType,
          pointRangeMinimum   |-> pr.bounds[1],
          pointRangeMaximum   |-> pr.bounds[2],
          angleNodeType       |-> an.nodeType,
          angleMinimum        |-> an.bounds[1],
          angleMaximum        |-> an.bounds[2],
          intensityField      |-> it.intensityField,
          timeStampField      |-> tm.timeStampField,
          timeNodeType        |-> tm.nodeType,
          timeMinimum         |-> tm.bounds[1],
          timeMaximum         |-> tm.bounds[2] ],
      intensityLimits |->
        [ intensityMinimum |-> it.limits[1], intensityMaximum |-> it.limits[2] ] ]

HeadersWith(f, c, on) ==
    { MakeHeader(pr, an, it, tm, n) :
        pr \in PointRangeSettings(c, f = "pointRange", on),
        an \in AngleSettings(c, f = "angle", on),
        it \in IntensitySettings(f = "intensity", on),
        tm \in TimeSettings(c, f = "time", on),
        n \in 0..MaxPoints }

Headers(f, c) == HeadersWith(f, c, FALSE) \cup HeadersWith(f, c, TRUE)

\* An array of n samples: every content over vals, or the one with all samples 1
Arrays(n, vals, all) == IF all THEN [1..n -> vals] ELSE {[i \in 1..n |-> 1]}

\* e57::Data3DPointsData_t<COORDTYPE>: parallel arrays of pointCount samples
Buffers(f, c, h) ==
    [ cartesianX : Arrays(h.pointCount, CartesianVals(c),
                          f = "pointRange" /\ h.pointFields.cartesianXField),
      cartesianY : Arrays(h.pointCount, CartesianVals(c),
                          f = "pointRange" /\ h.pointFields.cartesianXField),
      cartesianZ : Arrays(h.pointCount, CartesianVals(c),
                          f = "pointRange" /\ h.pointFields.cartesianXField),
      sphericalRange : Arrays(h.pointCount, CoordVals(c),
                              f = "pointRange" /\ h.pointFields.sphericalRangeField),
      sphericalAzimuth : Arrays(h.pointCount, CoordVals(c), f = "angle"),
      sphericalElevation : Arrays(h.pointCount, CoordVals(c), f = "angle"),
      intensity : Arrays(h.pointCount, DoubleVals,
                         f = "intensity" /\ h.pointFields.intensityField),
      timeStamp : Arrays(h.pointCount, DoubleVals,
                         f = "time" /\ h.pointFields.timeStampField) ]

\* Buffers of n points with every sample equal to v
ConstBuffers(n, v) ==
    [ cartesianX |-> [i \in 1..n |-> v], cartesianY |-> [i \in 1..n |-> v],
      cartesianZ |-> [i \in 1..n |-> v], sphericalRange |-> [i \in 1..n |-> v],
      sphericalAzimuth |-> [i \in 1..n |-> v], sphericalElevation |-> [i \in 1..n |-> v],
      intensity |-> [i \in 1..n |-> v], timeStamp |-> [i \in 1..n |-> v] ]

\* Buffers a caller passes with a header it reuses
UniformBuffers(n) == {ConstBuffers(n, 0), ConstBuffers(n, 1)}

-----------------------------------------------------------------------------
(* The bounds pass on its own: one header, filled once and then a second time *)

containerVars == <<data3D, writers, images2D, uploads, last, trace>>

\* No call made yet
NoCall == [op |-> "none", ok |-> TRUE, value |-> 0, index |-> 0, count |-> 0, pre |-> 0]

InitFill ==
    /\ coordType \in CoordTypes
    /\ \E f \in Families :
         /\ hdr \in Headers(f, coordType)
         /\ bufs \in Buffers(f, coordType, hdr)
    /\ fillCalls = 0
    /\ hdrEntry = hdr
    /\ secondBufs = "none"
    /\ data3D = <<>>
    /\ writers = EmptyBag
    /\ images2D = <<>>
    /\ uploads = <<>>
    /\ last = NoCall
    /\ trace = <<>>

\* _fillMinMaxData( hdr, bufs ), first call
CallFill ==
    /\ fillCalls = 0
    /\ hdrEntry' = hdr
    /\ hdr' = FillMinMaxData(hdr, coordType, bufs)
    /\ fillCalls' = 1
    /\ UNCHANGED <<coordType, bufs, secondBufs, containerVars>>

\* _fillMinMaxData( hdr, bufs ) again, same header object and same buffers
CallFillSame ==
    /\ fillCalls = 1
    /\ hdrEntry' = hdr
    /\ hdr' = FillMinMaxData(hdr, coordType, bufs)
    /\ fillCalls' = 2
    /\ secondBufs' = "same"
    /\ UNCHANGED <<coordType, bufs, containerVars>>

\* _fillMinMaxData( hdr, other ), same header object and other buffers
CallFillOther ==
    /\ fillCalls = 1
    /\ \E b \in UniformBuffers(hdr.pointCount) :
         /\ b # bufs
         /\ bufs' = b
         /\ hdr' = FillMinMaxData(hdr, coordType, b)
    /\ hdrEntry' = hdr
    /\ fillCalls' = 2
    /\ secondBufs' = "other"
    /\ UNCHANGED <<coordType, containerVars>>

NextFill == CallFill \/ CallFillSame \/ CallFillOther

SpecFill == InitFill /\ [][NextFill]_vars

-----------------------------------------------------------------------------
(* Properties of the bounds pass *)

\* The samples of family f that buffers b hold for header h
SamplesOf(f, h, b) ==
    LET idx == 1..h.pointCount
    IN  CASE f = "pointRange" ->
               (IF h.pointFields.cartesianXField
                THEN {b.cartesianX[i] : i \in idx} \cup {b.cartesianY[i] : i \in idx}
                     \cup {b.cartesianZ[i] : i \in idx}
                ELSE {})
               \cup (IF h.pointFields.sphericalRangeField
                     THEN {b.sphericalRange[i] : i \in idx}
                     ELSE {})
          [] f = "angle" ->
               {b.sphericalAzimuth[i] : i \in idx} \cup {b.sphericalElevation[i] : i \in idx}
          [] f = "intensity" ->
               IF h.pointFields.intensityField THEN {b.intensity[i] : i \in idx} ELSE {}
          [] f = "time" ->
               IF h.pointFields.timeStampField THEN {b.timeStamp[i] : i \in idx} ELSE {}

\* The <<minimum, maximum>> header h carries for family f
BoundsOf(f, h) ==
    CASE f = "pointRange" -> <<h.pointFields.pointRangeMinimum, h.pointFields.pointRangeMaximum>>
      [] f = "angle" -> <<h.pointFields.angleMinimum, h.pointFields.angleMaximum>>
      [] f = "intensity" -> <<h.intensityLimits.intensityMinimum,
                              h.intensityLimits.intensityMaximum>>
      [] f = "time" -> <<h.pointFields.timeMinimum, h.pointFields.timeMaximum>>

\* The write-precondition of family f on header h: the family is asked for and its
\* bounds are still the "unset" values
Unset(f, h, c) ==
    CASE f = "pointRange" -> /\ h.pointFields.pointRangeNodeType = "ScaledInteger"
                             /\ BoundsOf(f, h) = <<cMin(c), cMax(c)>>
      [] f = "angle" -> /\ h.pointFields.angleNodeType = "ScaledInteger"
                        /\ BoundsOf(f, h) = <<cMin(c), cMax(c)>>
      [] f = "intensity" -> /\ h.pointFields.intensityField
                            /\ BoundsOf(f, h) = <<0, 0>>
      [] f = "time" -> /\ h.pointFields.timeStampField
                       /\ h.pointFields.timeNodeType = "ScaledInteger"
                       /\ BoundsOf(f, h) = <<cMin(c), cMax(c)>>

\* Header h with every family other than f switched off
Isolated(f, h) ==
    [h EXCEPT
        !.pointFields.pointRangeNodeType = IF f = "pointRange" THEN @ ELSE "Float",
        !.pointFields.angleNodeType = IF f = "angle" THEN @ ELSE "Float",
        !.pointFields.intensityField = IF f = "intensity" THEN @ ELSE FALSE,
        !.pointFields.timeStampField = IF f = "time" THEN @ ELSE FALSE]

\* C1: after _fillMinMaxData on a header with pointCount >= 1, every family whose
\* precondition held on entry and that has a sample carries the true extrema of its
\* samples: minimum <= every sample <= maximum, and both are samples.  The point
\* range takes x, y, z (Cartesian enabled) together with the spherical range
\* (spherical range enabled); the angle takes azimuth and elevation.
C1_TrueExtrema ==
    fillCalls >= 1 =>
        \A f \in Families :
            LET S == SamplesOf(f, hdrEntry, bufs)
            IN  (Unset(f, hdrEntry, coordType) /\ hdrEntry.pointCount >= 1 /\ S # {}) =>
                    /\ \A v \in S : BoundsOf(f, hdr)[1] <= v /\ v <= BoundsOf(f, hdr)[2]
                    /\ BoundsOf(f, hdr)[1] \in S
                    /\ BoundsOf(f, hdr)[2] \in S

\* A point range computed from both sources: the minimum is a Cartesian sample,
\* the maximum a spherical range no Cartesian sample reaches
C1_Witness ==
    /\ fillCalls = 1
    /\ Unset("pointRange", hdrEntry, coordType)
    /\ hdrEntry.pointFields.cartesianXField
    /\ hdrEntry.pointFields.sphericalRangeField
    /\ hdrEntry.pointCount >= 2
    /\ BoundsOf("pointRange", hdr) = <<cMin(coordType), 0>>
    /\ bufs.cartesianZ[2] = cMin(coordType)
    /\ bufs.sphericalRange[1] = 0

\* C2: a family whose precondition is false on entry (bounds already set, not a
\* scaled integer, field not enabled) keeps its minimum and maximum exactly, whatever
\* the buffers and the point count; and the bounds a call leaves for a family are
\* those it leaves when the other three families are switched off.
C2_Frame ==
    fillCalls >= 1 =>
        \A f \in Families :
            /\ ~Unset(f, hdrEntry, coordType) => BoundsOf(f, hdr) = BoundsOf(f, hdrEntry)
            /\ BoundsOf(f, hdr)
                 = BoundsOf(f, FillMinMaxData(Isolated(f, hdrEntry), coordType, bufs))

\* A scaled-integer point range with one bound supplied by the caller and samples
\* outside it is kept, in a call that computes the angle bounds
C2_Witness ==
    /\ fillCalls = 1
    /\ hdrEntry.pointCount >= 1
    /\ hdrEntry.pointFields.pointRangeNodeType = "ScaledInteger"
    /\ hdrEntry.pointFields.cartesianXField
    /\ BoundsOf("pointRange", hdrEntry) = <<cMin(coordType), 1>>
    /\ bufs.cartesianX[1] = cMax(coordType)
    /\ BoundsOf("pointRange", hdr) = <<cMin(coordType), 1>>
    /\ Unset("angle", hdrEntry, coordType)
    /\ BoundsOf("angle", hdr) # BoundsOf("angle", hdrEntry)

\* C9: once a call has written a family's bounds, minimum <= maximum for that
\* family, for every header: pointCount = 0 and a scaled-integer point range with
\* neither Cartesian nor spherical range enabled included.
C9_MinimumAtMostMaximum ==
    fillCalls >= 1 =>
        \A f \in Families :
            Unset(f, hdrEntry, coordType) => BoundsOf(f, hdr)[1] <= BoundsOf(f, hdr)[2]

\* C10: a family written by a call has a false precondition on the next call with
\* the same header, so a second call, with the same or with other buffers, leaves
\* every family's bounds as the first call left them (a family the first call did
\* not write had a false precondition then and has it still), and two calls with
\* the same buffers give the header one call gives.
C10_SecondCallKeepsBounds ==
    /\ fillCalls = 1 =>
          \A f \in Families : Unset(f, hdrEntry, coordType) => ~Unset(f, hdr, coordType)
    /\ fillCalls = 2 =>
          \A f \in Families : BoundsOf(f, hdr) = BoundsOf(f, hdrEntry)
    /\ (fillCalls = 2 /\ secondBufs = "same") => hdr = hdrEntry

-----------------------------------------------------------------------------
(* Scan sessions: a caller with one header object driving the Writer *)

MaxRecords == 2
MaxWriters == 2

fillVars == <<coordType, hdr, bufs, fillCalls, hdrEntry, secondBufs>>
imageVars == <<images2D, uploads>>

\* The headers of the session scenario: all four families asked for
SessionHeaders(c) == HeadersWith("none", c, TRUE)

Init ==
    /\ coordType \in CoordTypes
    /\ hdr \in SessionHeaders(coordType)
    /\ bufs = ConstBuffers(hdr.pointCount, 1)
    /\ fillCalls = 0
    /\ hdrEntry = hdr
    /\ secondBufs = "none"
    /\ data3D = <<>>
    /\ writers = EmptyBag
    /\ images2D = <<>>
    /\ uploads = <<>>
    /\ last = NoCall
    /\ trace = <<>>

\* Number of open streaming writers the container has on record dataIndex
OpenWritersOn(d3, dataIndex) ==
    IF dataIndex \in 0..(Len(d3) - 1) THEN d3[dataIndex + 1].openWriters ELSE 0

\* writer.NewData3D( hdr ): manual flow, the header is taken as it is
NewData3D ==
    /\ Len(data3D) < MaxRecords
    /\ LET r == Writer_NewData3D(data3D, hdr)
       IN  /\ data3D' = r.data3D
           /\ last' = [op |-> "NewData3D", ok |-> r.ok, value |-> r.value,
                       index |-> 0, count |-> 0, pre |-> Len(data3D)]
    /\ trace' = <<>>
    /\ UNCHANGED <<fillVars, writers, imageVars>>

\* writer.SetUpData3DPointsData( dataIndex, hdr.pointCount, bufs ): manual flow;
\* the caller keeps the handle it gets
SetUpData3DPointsData ==
    /\ \E dataIndex \in 0..(MaxRecords - 1) :
         LET r == Writer_SetUpData3DPointsData(data3D, dataIndex, hdr.pointCount)
         IN  /\ r.ok => BagCardinality(writers) < MaxWriters
             /\ data3D' = r.data3D
             /\ writers' = IF r.ok THEN writers (+) SetToBag({r.writer}) ELSE writers
             /\ last' = [op |-> "SetUpData3DPointsData", ok |-> r.ok, value |-> 0,
                         index |-> dataIndex, count |-> hdr.pointCount,
                         pre |-> OpenWritersOn(data3D, dataIndex)]
    /\ trace' = <<>>
    /\ UNCHANGED <<fillVars, imageVars>>

\* handle.write( n ) on a handle w the caller holds
HandleWrite ==
    /\ \E w \in BagToSet(writers), n \in 1..MaxPoints :
         LET r == CompressedVectorWriter_write(w, n)
         IN  /\ writers' = (writers (-) SetToBag({w})) (+) SetToBag({r.writer})
             /\ last' = [op |-> "write", ok |-> r.ok, value |-> 0,
                         index |-> w.dataIndex, count |-> n, pre |-> w]
    /\ trace' = <<>>
    /\ UNCHANGED <<fillVars, data3D, imageVars>>

\* handle.close() on a handle w the caller holds
HandleClose ==
    /\ \E w \in BagToSet(writers) :
         LET r == CompressedVectorWriter_close(data3D, w)
         IN  /\ writers' = (writers (-) SetToBag({w})) (+) SetToBag({r.writer})
             /\ data3D' = r.data3D
             /\ last' = [op |-> "close", ok |-> r.ok, value |-> 0,
                         index |-> w.dataIndex, count |-> 0, pre |-> w]
    /\ trace' = <<>>
    /\ UNCHANGED <<fillVars, imageVars>>

\* writer.WriteData3DData( hdr, b ): single shot; its handle is a local of the call
WriteData3DData ==
    /\ Len(data3D) < MaxRecords
    /\ LET r == Writer_WriteData3DData(data3D, hdr, coordType, bufs)
       IN  /\ hdrEntry' = hdr
             /\ hdr' = r.hdr
             /\ data3D' = r.data3D
             /\ last' = [op |-> "WriteData3DData", ok |-> r.ok, value |-> r.value,
                         index |-> 0, count |-> 0, pre |-> Len(data3D)]
             /\ trace' = r.trace
    /\ UNCHANGED <<coordType, bufs, fillCalls, secondBufs, writers, imageVars>>

\* Number of group indexes record dataIndex has, NoValue when there is no such record
GroupIndexesOf(d3, dataIndex) ==
    IF dataIndex \in 0..(Len(d3) - 1) THEN d3[dataIndex + 1].groupIndexes ELSE NoValue

\* writer.WriteData3DGroupsData( dataIndex, ... )
WriteData3DGroupsData ==
    /\ \E dataIndex \in 0..(MaxRecords - 1) :
         LET r == Writer_WriteData3DGroupsData(data3D, dataIndex)
         IN  /\ data3D' = r.data3D
             /\ last' = [op |-> "WriteData3DGroupsData", ok |-> r.ok, value |-> r.value,
                         index |-> dataIndex, count |-> 0,
                         pre |-> GroupIndexesOf(data3D, dataIndex)]
    /\ trace' = <<>>
    /\ UNCHANGED <<fillVars, writers, imageVars>>

Next ==
    \/ NewData3D
    \/ SetUpData3DPointsData
    \/ HandleWrite
    \/ HandleClose
    \/ WriteData3DData

Spec == Init /\ [][Next]_vars

\* Sessions that write group indexes for the records they create
NextGroups ==
    \/ NewData3D
    \/ WriteData3DData
    \/ WriteData3DGroupsData

SpecGroups == Init /\ [][NextGroups]_vars

-----------------------------------------------------------------------------
(* Properties of scan sessions *)

\* The names of the calls in trace, in order
CallNames == [i \in 1..Len(trace) |-> trace[i].call]

\* The open handles the caller holds on record dataIndex
OpenHandlesOn(dataIndex) ==
    {w \in BagToSet(writers) : w.isOpen /\ w.dataIndex = dataIndex}

\* C3: a completed single-shot WriteData3DData has made exactly these calls, in this
\* order: fill the bounds, NewData3D with the filled header, SetUpData3DPointsData
\* for the index NewData3D returned with header.pointCount, one write of
\* header.pointCount points, one close; it returns that index and leaves no
\* streaming writer open on the record.  (The session's buffers hold the sample 1
\* everywhere and its header asks for all four families, so filled bounds are 1, 1.)
C3_SingleShotOrder ==
    (last.op = "WriteData3DData" /\ last.ok) =>
        /\ CallNames = <<"_fillMinMaxData", "NewData3D", "SetUpData3DPointsData",
                         "write", "close">>
        /\ \A i \in 1..Len(trace) : trace[i].ok
        /\ \A f \in Families : BoundsOf(f, trace[2].header) = <<1, 1>>
        /\ trace[2].header = hdr
        /\ trace[2].value = last.pre
        /\ trace[3].index = trace[2].value
        /\ trace[3].count = hdr.pointCount
        /\ trace[4].index = trace[2].value
        /\ trace[4].count = hdr.pointCount
        /\ trace[5].index = trace[2].value
        /\ last.value = trace[2].value
        /\ Len(data3D) = last.pre + 1
        /\ OpenWritersOn(data3D, last.value) = 0

\* A single shot that completed as the second record of the file
C3_Witness ==
    /\ last.op = "WriteData3DData"
    /\ last.ok
    /\ last.value = 1
    /\ hdr.pointCount = MaxPoints
    /\ \A f \in Families : Unset(f, hdrEntry, coordType)
    /\ Len(trace) = 5

\* C4: on a handle of the manual flow, a write that keeps the cumulative count
\* within the point count the caller declared succeeds (so a sequence of writes
\* summing to exactly that count succeeds), a write that would push it beyond
\* fails, a write after close fails and a close after close fails.
C4_ManualFlow ==
    /\ last.op = "write" =>
        /\ (last.pre.isOpen /\ last.pre.recordCount + last.count <= hdr.pointCount)
              => last.ok
        /\ last.pre.recordCount + last.count > hdr.pointCount => ~last.ok
        /\ ~last.pre.isOpen => ~last.ok
    /\ last.op = "close" => (~last.pre.isOpen => ~last.ok)

\* A partial write that follows another and completes the declared count exactly
C4_Witness ==
    /\ last.op = "write"
    /\ last.ok
    /\ last.pre.recordCount > 0
    /\ last.pre.recordCount + last.count = hdr.pointCount

C6_FailedCreationAborts ==
    (last.op = "WriteData3DData"
        /\ \E i \in 1..Len(trace) : trace[i].call = "NewData3D" /\ ~trace[i].ok) =>
        /\ ~last.ok
        /\ last.value = NoValue
        /\ CallNames = <<"_fillMinMaxData", "NewData3D">>
        /\ Len(data3D) = last.pre

\* A single shot whose header the container refuses
C6_Witness ==
    /\ last.op = "WriteData3DData"
    /\ ~last.ok
    /\ Len(trace) = 2
    /\ trace[2].call = "NewData3D"
    /\ ~trace[2].ok
    /\ trace[2].header.pointCount = 0

\* C8: WriteData3DGroupsData on an existing record without a group index returns
\* true; on a record that has one it returns false, to the caller and as a result;
\* no record ever has more than one group index.
C8_OneGroupIndex ==
    /\ \A k \in 0..(Len(data3D) - 1) : GroupIndexesOf(data3D, k) <= 1
    /\ last.op = "WriteData3DGroupsData" =>
          /\ last.ok
          /\ last.pre = 0 => (last.value = TRUE /\ GroupIndexesOf(data3D, last.index) = 1)
          /\ last.pre >= 1 => (last.value = FALSE /\ GroupIndexesOf(data3D, last.index) = 1)

\* A second WriteData3DGroupsData on a record, answered false
C8_Witness ==
    /\ last.op = "WriteData3DGroupsData"
    /\ last.pre = 1
    /\ last.value = FALSE
    /\ GroupIndexesOf(data3D, last.index) = 1

-----------------------------------------------------------------------------
(* Image uploads: a caller creating image records and sending their bytes *)

MaxImages == 2
MaxBytes == 2

sessionVars == <<data3D, writers>>

InitImage ==
    /\ coordType = "double"
    /\ hdr \in HeadersWith("none", coordType, FALSE)
    /\ hdr.pointCount = 0
    /\ bufs = ConstBuffers(0, 0)
    /\ fillCalls = 0
    /\ hdrEntry = hdr
    /\ secondBufs = "none"
    /\ data3D = <<>>
    /\ writers = EmptyBag
    /\ images2D = <<>>
    /\ uploads = <<>>
    /\ last = NoCall
    /\ trace = <<>>

\* A chunked upload that has sent nothing yet
NoUpload == [contiguous |-> TRUE, offset |-> 0, sum |-> 0]

\* The upload after the call ( start, count ) returned `written` on an image of
\* `size` bytes: still a run of contiguous chunks from offset 0 inside the image, or not
Uploaded(u, size, start, count, ok, written) ==
    IF u.contiguous /\ start = u.offset /\ count >= 0 /\ start + count <= size
    THEN [contiguous |-> TRUE, offset |-> u.offset + count,
          sum |-> u.sum + (IF ok THEN written ELSE 0)]
    ELSE [contiguous |-> FALSE, offset |-> 0, sum |-> 0]

\* writer.NewImage2D( header )
NewImage2D ==
    /\ Len(images2D) < MaxImages
    /\ \E byteCount \in 1..MaxBytes :
         LET r == Writer_NewImage2D(images2D, byteCount)
         IN  /\ images2D' = r.images2D
             /\ uploads' = Append(uploads, NoUpload)
             /\ last' = [op |-> "NewImage2D", ok |-> r.ok, value |-> r.value,
                         index |-> 0, count |-> 0, pre |-> Len(images2D)]
    /\ trace' = <<>>
    /\ UNCHANGED <<fillVars, sessionVars>>

\* writer.WriteImage2DData( imageIndex, imageType, imageProjection, buffer, start, count )
WriteImage2DDataAt ==
    /\ \E imageIndex \in 0..(MaxImages - 1), start \in 0..MaxBytes, count \in (-1)..MaxBytes :
         LET r == Writer_WriteImage2DDataAt(images2D, imageIndex, start, count)
         IN  /\ images2D' = r.images2D
             /\ uploads' =
                  IF imageIndex < Len(uploads)
                  THEN [uploads EXCEPT ![imageIndex + 1] =
                          Uploaded(@, images2D[imageIndex + 1].byteCount,
                                   start, count, r.ok, r.value)]
                  ELSE uploads
             /\ last' = [op |-> "WriteImage2DDataAt", ok |-> r.ok, value |-> r.value,
                         index |-> imageIndex, count |-> count, pre |-> Len(images2D)]
             /\ trace' = r.trace
    /\ UNCHANGED <<fillVars, sessionVars>>

\* writer.WriteImage2DData( header, imageType, imageProjection, startPos, buffer, byteCount )
WriteImage2DDataNew ==
    /\ Len(images2D) < MaxImages
    /\ \E byteCountOfImage \in 1..MaxBytes, startPos \in 0..MaxBytes,
          byteCount \in (-1)..MaxBytes :
         LET r == Writer_WriteImage2DDataNew(images2D, byteCountOfImage, startPos, byteCount)
         IN  /\ images2D' = r.images2D
             /\ uploads' = Append(uploads, Uploaded(NoUpload, byteCountOfImage,
                                                    startPos, byteCount, r.ok, r.value))
             /\ last' = [op |-> "WriteImage2DDataNew", ok |-> r.ok, value |-> r.value,
                         index |-> Len(images2D), count |-> byteCount,
                         pre |-> Len(images2D)]
             /\ trace' = r.trace
    /\ UNCHANGED <<fillVars, sessionVars>>

NextImage == NewImage2D \/ WriteImage2DDataAt \/ WriteImage2DDataNew

SpecImage == InitImage /\ [][NextImage]_vars

-----------------------------------------------------------------------------
(* Properties of image uploads *)

\* C7: while the WriteImage2DData( imageIndex, ... ) calls on an image are chunks
\* that start at 0, follow each other without gap and stay inside the image, every
\* call succeeds and returns its count, so the returned counts sum to the bytes
\* covered (the image size once the image is covered); no call of the index form
\* creates an image record.
C7_ChunkedUpload ==
    /\ \A i \in 1..Len(uploads) :
          uploads[i].contiguous => uploads[i].sum = uploads[i].offset
    /\ last.op = "WriteImage2DDataAt" =>
          /\ Len(images2D) = last.pre
          /\ (last.index < Len(uploads) /\ uploads[last.index + 1].contiguous) =>
                (last.ok /\ last.value = last.count)

\* The second image of the file covered by two chunks of one byte
C7_Witness ==
    /\ last.op = "WriteImage2DDataAt"
    /\ last.index = 1
    /\ Len(images2D) = 2
    /\ images2D[2].byteCount = 2
    /\ last.count = 1
    /\ last.value = 1
    /\ uploads[2] = [contiguous |-> TRUE, offset |-> 2, sum |-> 2]

====
